---- MODULE Spec2Model ----
(***************************************************************************)
(* Workflow editor of deepflow (app/src): the node/edge graph held by       *)
(* WorkflowPage, the single-level timed undo of node deletion, and the      *)
(* save / load / autosave pipeline of useWorkflow and actions/workflow.ts.  *)
(* Further: the edits of the graph (create, connect and edit tab, canvas),  *)
(* the results of the operations of actions/workflow.ts, the chat          *)
(* sessions of useChatSession, and the sessions of the execute endpoint as  *)
(* API_DOCUMENTATION.md states them.                                        *)
(*                                                                         *)
(* Time is counted in seconds and kept as differences to the current clock *)
(* reading: a pending timer holds the seconds left until it is due, a time  *)
(* stamp holds the seconds passed since it was taken (Date.now() - stamp).  *)
(* An optional value (T | null) is a sequence of length 0 or 1.  A timer    *)
(* handle is a positive number, 0 is null.                                  *)
(***************************************************************************)
EXTENDS Integers, Sequences, FiniteSets, TLC

VARIABLES
  nodes,            \* page.tsx:129  useNodesState(initialNodes)
  edges,            \* page.tsx:130  useEdgesState(initialEdges)
  selectedNode,     \* page.tsx:131  Node | null, the object handed to onNodeClick
  selectedEdge,     \* page.tsx:132  Edge | null
  deletedNodeData,  \* page.tsx:138  DeletedNodeData | null
  undoTimeoutRef,   \* page.tsx:139  handle of the last undo timer
  autoSaveTimeout,  \* actions/workflow.ts:259  handle of the last autosave timer
  timers,           \* the timers of the event loop that are still pending
  state,            \* use-workflow.ts:45  WorkflowState
  inflight,         \* requests sent to the backend and not yet answered
  backend,          \* the workflow stored by the backend
  render,           \* whether the auto-save effect of page.tsx:179 is due
  op,               \* the operation that produced the current state
  hist,             \* history of the run, read by the properties only
  clock,            \* the reading of Date.now(), in milliseconds
  coord,            \* the last call of an operation of actions/workflow.ts
  chat,             \* use-chat-session.ts: the sessions of useChatSession
  server,           \* the sessions of the execute endpoint
  elkOptions,       \* lib/layout-utils: the module's layout options
  layouted          \* the last call of getLayoutedElements and what it returned

vars == <<nodes, edges, selectedNode, selectedEdge, deletedNodeData, undoTimeoutRef,
          autoSaveTimeout, timers, state, inflight, backend, render, op, hist,
          clock, coord, chat, server, elkOptions, layouted>>

graphVars == <<nodes, edges, selectedNode, selectedEdge>>
undoVars == <<deletedNodeData, undoTimeoutRef>>
saveVars == <<autoSaveTimeout, state, inflight, backend, render>>
layoutVars == <<elkOptions, layouted>>
extVars == <<clock, coord, chat, server, layoutVars>>

-----------------------------------------------------------------------------
(* Bounds and program constants *)

\* a time stamp older than this many seconds is kept as this many seconds old
MaxAge == 11

\* setTimeout(..., 10000) of handleDeleteNode
UndoDelay == 10

\* autoSaveWorkflow(nodes, edges, 3000) of enableAutoSave
AutoSaveDelay == 3

\* a time stamp of the save state older than this is kept as this old
MaxSavedAge == 1

\* requests that wait for their answer at the same time
MaxInflight == 1

\* nodes and edges a graph of the editing runs holds at most
MaxNodes == 6
MaxEdges == 5

\* the last reading of the clock, in milliseconds after the first
MaxClock == 1

\* messages a conversation of the execute endpoint stores at most
MaxStored == 14

\* "Last 10 messages are used for conversation context"
ContextWindow == 10

\* messages a chat session of the runs holds at most
MaxMessages == 4

\* nodes the create form adds in the runs of the system nodes
MaxCreated == 1

\* requests the operations of useWorkflow have in flight at a time
MaxRequests == 2

\* values typed into the Name field of the edit tab
NameInputs == {"Renamed"}

\* places a node is dragged to
DragPositions == {[x |-> 900, y |-> 400]}

\* the nodes the user clicks on, and the nodes the user drags
ClickIds == {"start", "agent", "tools"}

DragIds == {"agent"}

\* how the backend answers a request
Outcomes == {"ok", "http_error", "network_error"}

-----------------------------------------------------------------------------
(* The graph WorkflowPage starts with *)

initialNodes ==
  << [id |-> "start", position |-> [x |-> 100, y |-> 100],
      data |-> [name |-> "START", nodeType |-> "start"]],
     [id |-> "agent", position |-> [x |-> 300, y |-> 100],
      data |-> [name |-> "Main Agent", nodeType |-> "agent"]],
     [id |-> "tools", position |-> [x |-> 500, y |-> 100],
      data |-> [name |-> "Tool Suite", nodeType |-> "tools"]],
     [id |-> "end", position |-> [x |-> 700, y |-> 100],
      data |-> [name |-> "END", nodeType |-> "end"]] >>

initialEdges ==
  << [id |-> "e-start-agent", source |-> "start", target |-> "agent",
      sourceHandle |-> "output", targetHandle |-> "input"],
     [id |-> "e-agent-tools", source |-> "agent", target |-> "tools",
      sourceHandle |-> "output", targetHandle |-> "input"],
     [id |-> "e-tools-agent", source |-> "tools", target |-> "agent",
      sourceHandle |-> "output", targetHandle |-> "input"],
     [id |-> "e-agent-end", source |-> "agent", target |-> "end",
      sourceHandle |-> "output", targetHandle |-> "input"] >>

-----------------------------------------------------------------------------
(* Helpers *)

Range(s) == {s[i] : i \in DOMAIN s}

NodeIds(ns) == {ns[i].id : i \in DOMAIN ns}

EdgeIds(es) == {es[i].id : i \in DOMAIN es}

\* nodes.find(n => n.id === id), as an optional value
FindNode(ns, id) ==
  LET hits == SelectSeq(ns, LAMBDA n : n.id = id)
  IN  IF hits = <<>> THEN <<>> ELSE <<hits[1]>>

\* setTimeout returns a handle no pending timer and no variable holds
FreshTimer ==
  LET used == {t.id : t \in timers} \cup {undoTimeoutRef, autoSaveTimeout}
  IN  CHOOSE i \in 1..(Cardinality(used) + 1) :
        i \notin used /\ \A j \in 1..(i - 1) : j \in used

\* clearTimeout(handle) guarded by `if (handle)`
ClearTimeout_Noop(ts, handle) == ts

ClearTimeout(ts, handle) ==
  IF handle # 0 THEN {t \in ts : t.id # handle} ELSE ts

NoHist ==
  [pre |-> <<>>, graphNode |-> <<>>, deletedId |-> "", superseded |-> "",
   expired |-> FALSE, acted |-> FALSE,
   calls |-> 0, fires |-> 0, lastArgs |-> <<>>, sent |-> <<>>,
   afterFailure |-> "none", manual |-> <<>>, via |-> "", kept |-> TRUE,
   conn |-> <<>>, prevSent |-> <<>>, before |-> <<>>, session |-> "",
   edit |-> <<>>, captured |-> FALSE, stale |-> <<>>, ignored |-> <<>>]

-----------------------------------------------------------------------------
(* Selection *)

\* onNodeClick
OnNodeClick(i) ==
  /\ selectedNode' = <<nodes[i]>>
  /\ selectedEdge' = <<>>

\* onPaneClick
OnPaneClick ==
  /\ selectedNode' = <<>>
  /\ selectedEdge' = <<>>

-----------------------------------------------------------------------------
(* Edits of a node *)

\* EditTab.currentNode
CurrentNode ==
  IF selectedNode = <<>> THEN <<>> ELSE FindNode(nodes, selectedNode[1].id)

\* EditTab.updateNodeData(field, value)
UpdateNodeData(field, value) ==
  nodes' = [i \in DOMAIN nodes |->
              IF nodes[i].id = selectedNode[1].id
              THEN [nodes[i] EXCEPT !.data = [nodes[i].data EXCEPT ![field] = value]]
              ELSE nodes[i]]

\* onNodesChange for a drag of node i to position p
DragNode(i, p) ==
  nodes' = [nodes EXCEPT ![i] = [nodes[i] EXCEPT !.position = p]]

-----------------------------------------------------------------------------
(* Deletion of a node with undo *)

ConnectedEdges_TargetOnly(es, id) ==
  SelectSeq(es, LAMBDA e : e.target = id)

\* the edges handleDeleteNode stores with the deleted node
ConnectedEdges(es, id) ==
  SelectSeq(es, LAMBDA e : e.source = id \/ e.target = id)

RemainingEdges_SourceOnly(es, id) ==
  SelectSeq(es, LAMBDA e : e.source # id)

\* the edges handleDeleteNode leaves in the graph
RemainingEdges(es, id) ==
  SelectSeq(es, LAMBDA e : e.source # id /\ e.target # id)

\* the nodes handleDeleteNode leaves in the graph
RemainingNodes(ns, id) ==
  SelectSeq(ns, LAMBDA n : n.id # id)

\* the record handleDeleteNode builds
DeletionData(nodeToDelete) ==
  [node |-> nodeToDelete,
   connectedEdges |-> ConnectedEdges(edges, nodeToDelete.id),
   timestamp |-> 0]

RecordDeletion_KeepPending(old, deletionData) ==
  IF old # <<>> THEN old ELSE <<deletionData>>

\* the record held after setDeletedNodeData(deletionData)
RecordDeletion(old, deletionData) == <<deletionData>>

handleDeleteNode_KeepTimer(nodeToDelete) ==
  LET handle == FreshTimer
  IN  /\ deletedNodeData' = RecordDeletion(deletedNodeData, DeletionData(nodeToDelete))
      /\ nodes' = RemainingNodes(nodes, nodeToDelete.id)
      /\ edges' = RemainingEdges(edges, nodeToDelete.id)
      /\ timers' = timers \cup
                     {[id |-> handle, kind |-> "undo", remaining |-> UndoDelay,
                       nodes |-> <<>>, edges |-> <<>>]}
      /\ undoTimeoutRef' = handle

\* WorkflowPage.handleDeleteNode
handleDeleteNode(nodeToDelete) ==
  LET handle == FreshTimer
  IN  /\ deletedNodeData' = RecordDeletion(deletedNodeData, DeletionData(nodeToDelete))
      /\ nodes' = RemainingNodes(nodes, nodeToDelete.id)
      /\ edges' = RemainingEdges(edges, nodeToDelete.id)
      /\ timers' = ClearTimeout(timers, undoTimeoutRef) \cup
                     {[id |-> handle, kind |-> "undo", remaining |-> UndoDelay,
                       nodes |-> <<>>, edges |-> <<>>]}
      /\ undoTimeoutRef' = handle

ExpiredRecord_Kept(old) == old

\* the record left by the callback of the undo timer
ExpiredRecord(old) == <<>>

\* the nodes and edges after undoNodeDeletion put the record back
RestoredNodes(ns, rec) == Append(ns, rec.node)

RestoredEdges(es, rec) == es \o rec.connectedEdges

\* WorkflowPage.undoNodeDeletion
undoNodeDeletion ==
  IF deletedNodeData = <<>>
  THEN UNCHANGED <<nodes, edges, deletedNodeData, timers>>
  ELSE /\ timers' = ClearTimeout(timers, undoTimeoutRef)
       /\ nodes' = RestoredNodes(nodes, deletedNodeData[1])
       /\ edges' = RestoredEdges(edges, deletedNodeData[1])
       /\ deletedNodeData' = <<>>

-----------------------------------------------------------------------------
(* Actions *)

\* the session ids the execute endpoint stores conversations under
StoredSessionIds == {"6f1c2a9e-0b7d-4c3a-9e21-5d8f7a6b4c10",
                     "0a4e8b1d-3c5f-4e7a-8b9c-2d6f1e0a7b35"}

\* the execute endpoint before its first request: no conversation has messages
NoServer ==
  [store |-> [id \in StoredSessionIds |-> <<>>],
   last |-> [isNewChat |-> <<>>, sessionArg |-> <<>>, mode |-> "none",
             status |-> "none", sessionId |-> <<>>, context |-> <<>>]]

\* the session ids the chat pages are opened with
ChatSessionIds == {"A", "B"}

\* no operation of actions/workflow.ts was called yet
NoCall == [operation |-> "none", sessionId |-> <<>>, fetched |-> FALSE,
           response |-> "none", result |-> <<>>, sent |-> <<>>]

Init ==
  /\ nodes = initialNodes
  /\ edges = initialEdges
  /\ selectedNode = <<>>
  /\ selectedEdge = <<>>
  /\ deletedNodeData = <<>>
  /\ undoTimeoutRef = 0
  /\ autoSaveTimeout = 0
  /\ timers = {}
  /\ state = [isSaving |-> FALSE, isLoading |-> FALSE,
              isExecuting |-> FALSE, isValidating |-> FALSE,
              hasUnsavedChanges |-> FALSE, lastSaved |-> <<>>]
  /\ inflight = <<>>
  /\ backend = [nodes |-> <<>>, edges |-> <<>>]
  /\ render = "mount"
  /\ op = "init"
  /\ hist = NoHist
  /\ clock = 0
  /\ coord = NoCall
  /\ server = NoServer
  /\ chat = [sessionId \in ChatSessionIds |->
               [messages |-> <<>>, isLoading |-> FALSE, pending |-> <<>>]]
  /\ elkOptions = [option \in {"elk.direction"} |-> "RIGHT"]
  /\ layouted = <<>>

\* what every step but a deletion or an undo leaves of the history
Forget == [hist EXCEPT !.pre = <<>>, !.acted = FALSE,
                       !.superseded = IF deletedNodeData' = <<>> THEN "" ELSE @,
                       !.graphNode = IF deletedNodeData' = <<>> THEN <<>> ELSE @]

NodeClick ==
  \E i \in DOMAIN nodes :
    /\ nodes[i].id \in ClickIds
    /\ OnNodeClick(i)
    /\ op' = "onNodeClick"
    /\ UNCHANGED <<nodes, edges, undoVars, timers, saveVars>>
    /\ UNCHANGED extVars
    /\ hist' = Forget

PaneClick ==
  /\ selectedNode # <<>> \/ selectedEdge # <<>>
  /\ OnPaneClick
  /\ op' = "onPaneClick"
  /\ UNCHANGED <<nodes, edges, undoVars, timers, saveVars>>
  /\ UNCHANGED extVars
  /\ hist' = Forget

EditField ==
  \E value \in NameInputs :
    /\ selectedNode # <<>>
    /\ CurrentNode # <<>>
    /\ UpdateNodeData("name", value)
    /\ op' = "updateNodeData"
    /\ UNCHANGED <<edges, selectedNode, selectedEdge, undoVars, timers, saveVars>>
    /\ UNCHANGED extVars
    /\ hist' = Forget

Drag ==
  \E i \in DOMAIN nodes, p \in DragPositions :
    /\ nodes[i].id \in DragIds
    /\ DragNode(i, p)
    /\ op' = "drag"
    /\ UNCHANGED <<edges, selectedNode, selectedEdge, undoVars, timers, saveVars>>
    /\ UNCHANGED extVars
    /\ hist' = Forget

\* EditTab.removeNode -> Sidebar.handleDeleteNode -> WorkflowPage.handleDeleteNode
RemoveNode ==
  /\ selectedNode # <<>>
  /\ CurrentNode # <<>>
  /\ CurrentNode[1].data.nodeType \notin {"start", "end"}
  /\ selectedNode[1].data.nodeType \notin {"start", "end"}
  /\ handleDeleteNode(selectedNode[1])
  /\ selectedNode' = <<>>
  /\ op' = "removeNode"
  /\ hist' = [pre |-> <<[nodes |-> nodes, edges |-> edges]>>,
              graphNode |-> CurrentNode,
              deletedId |-> selectedNode[1].id,
              superseded |-> IF deletedNodeData # <<>>
                             THEN deletedNodeData[1].node.id ELSE "",
              expired |-> FALSE,
              acted |-> TRUE]
  /\ UNCHANGED <<selectedEdge, saveVars>>
  /\ UNCHANGED extVars

\* the Undo button of the notification, or Ctrl+Z
Undo ==
  /\ undoNodeDeletion
  /\ op' = "undoNodeDeletion"
  /\ hist' = [hist EXCEPT !.pre = IF op = "removeNode" THEN @ ELSE <<>>,
                          !.acted = (deletedNodeData # <<>>)]
  /\ UNCHANGED <<selectedNode, selectedEdge, undoTimeoutRef, saveVars>>
  /\ UNCHANGED extVars

\* onDismiss of GlobalUndoNotification
DismissUndo ==
  /\ deletedNodeData # <<>>
  /\ deletedNodeData' = <<>>
  /\ op' = "onDismiss"
  /\ UNCHANGED <<graphVars, undoTimeoutRef, timers, saveVars>>
  /\ UNCHANGED extVars
  /\ hist' = Forget

\* the callback of the undo timer
UndoTimeout ==
  \E t \in timers :
    /\ t.kind = "undo"
    /\ t.remaining = 0
    /\ timers' = timers \ {t}
    /\ deletedNodeData' = ExpiredRecord(deletedNodeData)
    /\ op' = "undoTimeout"
    /\ UNCHANGED <<graphVars, undoTimeoutRef, saveVars>>
    /\ UNCHANGED extVars
    /\ hist' = [Forget EXCEPT !.expired = (deletedNodeData # <<>>)]

\* the seconds passed since a time stamp, one second later
Older(age) == IF age < MaxAge THEN age + 1 ELSE MaxAge

OlderSaved(age) == IF age < MaxSavedAge THEN age + 1 ELSE MaxSavedAge

\* a second passes; a timer that is due runs first
Tick ==
  /\ \A t \in timers : t.remaining > 0
  /\ timers' = {[t EXCEPT !.remaining = @ - 1] : t \in timers}
  /\ deletedNodeData' = [i \in DOMAIN deletedNodeData |->
                           [deletedNodeData[i] EXCEPT !.timestamp = Older(@)]]
  /\ state' = [state EXCEPT !.lastSaved = [i \in DOMAIN @ |-> OlderSaved(@[i])]]
  /\ op' = "tick"
  /\ UNCHANGED <<graphVars, undoTimeoutRef, autoSaveTimeout, inflight, backend, render>>
  /\ UNCHANGED extVars
  /\ hist' = Forget

NextUndo ==
  \/ NodeClick
  \/ PaneClick
  \/ EditField
  \/ Drag
  \/ RemoveNode
  \/ Undo
  \/ DismissUndo
  \/ UndoTimeout
  \/ Tick

SpecUndo == Init /\ [][NextUndo]_vars

\* EditTab.removeNode as in RemoveNode, with the history of the timer that the
\* deletion found pending: the seconds left of a timer whose record was
\* dismissed before
DeleteNode ==
  /\ selectedNode # <<>>
  /\ CurrentNode # <<>>
  /\ CurrentNode[1].data.nodeType \notin {"start", "end"}
  /\ selectedNode[1].data.nodeType \notin {"start", "end"}
  /\ handleDeleteNode(selectedNode[1])
  /\ selectedNode' = <<>>
  /\ op' = "removeNode"
  /\ hist' = [NoHist EXCEPT
                !.deletedId = selectedNode[1].id,
                !.acted = TRUE,
                !.stale = IF deletedNodeData = <<>>
                          THEN [i \in 1..Cardinality({t \in timers : t.kind = "undo"}) |->
                                  (CHOOSE t \in timers : t.kind = "undo").remaining]
                          ELSE <<>>]
  /\ UNCHANGED <<selectedEdge, saveVars>>
  /\ UNCHANGED extVars

\* deletions, each with the undo, the dismissal or the expiry of its record
NextExpiry ==
  \/ NodeClick
  \/ DeleteNode
  \/ Undo
  \/ DismissUndo
  \/ UndoTimeout
  \/ Tick

SpecExpiry == Init /\ [][NextExpiry]_vars

-----------------------------------------------------------------------------
(* The save pipeline: useWorkflow, actions/workflow.ts, the effects of the page *)

Snapshot(ns, es) == [nodes |-> ns, edges |-> es]

Request(kind, via, ns, es) == [kind |-> kind, via |-> via, nodes |-> ns, edges |-> es]

RemoveAt(seq, i) == [j \in 1..(Len(seq) - 1) |-> IF j < i THEN seq[j] ELSE seq[j + 1]]

AutoSaveTimers == {t \in timers : t.kind = "autosave"}

ClearedForAutoSave_Kept(ts, handle) == ts

\* a debounce that keeps the timer it finds and drops the new call
autoSaveWorkflow_KeepFirst(ns, es, delay) ==
  IF AutoSaveTimers # {}
  THEN UNCHANGED <<timers, autoSaveTimeout>>
  ELSE /\ timers' = timers \cup
                      {[id |-> FreshTimer, kind |-> "autosave", remaining |-> delay,
                        nodes |-> ns, edges |-> es]}
       /\ autoSaveTimeout' = FreshTimer

\* autoSaveWorkflow: `if (autoSaveTimeout) clearTimeout(autoSaveTimeout)`
ClearedForAutoSave(ts, handle) == ClearTimeout(ts, handle)

\* actions/workflow.ts autoSaveWorkflow(nodes, edges, delay)
autoSaveWorkflow(ns, es, delay) ==
  LET handle == FreshTimer
  IN  /\ timers' = ClearedForAutoSave(timers, autoSaveTimeout) \cup
                     {[id |-> handle, kind |-> "autosave", remaining |-> delay,
                       nodes |-> ns, edges |-> es]}
      /\ autoSaveTimeout' = handle

\* useWorkflow.markAsChanged
markAsChanged(st) == [st EXCEPT !.hasUnsavedChanges = TRUE]

\* useWorkflow.enableAutoSave, with the hasUnsavedChanges of the render it was made in
enableAutoSave(ns, es) ==
  IF state.hasUnsavedChanges
  THEN autoSaveWorkflow(ns, es, AutoSaveDelay)
  ELSE UNCHANGED <<timers, autoSaveTimeout>>

\* the state useWorkflow.save sets when saveWorkflow answered
SavedState(st, success) ==
  IF success
  THEN [st EXCEPT !.isSaving = FALSE, !.hasUnsavedChanges = FALSE, !.lastSaved = <<0>>]
  ELSE [st EXCEPT !.isSaving = FALSE]

\* the state useWorkflow.load sets when loadWorkflow answered
LoadedState(st, success) ==
  IF success
  THEN [st EXCEPT !.isLoading = FALSE, !.hasUnsavedChanges = FALSE, !.lastSaved = <<0>>]
  ELSE [st EXCEPT !.isLoading = FALSE]

\* elk.layout puts the k-th child of the graph in the k-th layer
ElkPosition(k) == [x |-> 12 + 300 * (k - 1), y |-> 12]

\* lib/layout-utils getLayoutedElements: the nodes with the positions of the layout
LayoutedNodes(ns) == [k \in DOMAIN ns |-> [ns[k] EXCEPT !.position = ElkPosition(k)]]

\* the history of the autosave calls: a call that finds a timer pending goes on
\* with the burst of calls, any other call starts a burst
Scheduled(ns, es) ==
  [hist EXCEPT
     !.calls = IF AutoSaveTimers # {} THEN (IF @ < 2 THEN @ + 1 ELSE 2) ELSE 1,
     !.fires = IF AutoSaveTimers # {} THEN @ ELSE 0,
     !.lastArgs = <<Snapshot(ns, es)>>,
     !.afterFailure = IF @ = "failed" THEN "rescheduled" ELSE @,
     !.pre = <<>>, !.acted = FALSE]

\* the history after an edit of the graph
Edited == [hist EXCEPT !.afterFailure = "none", !.manual = <<>>,
                       !.pre = <<>>, !.acted = FALSE,
                       !.edit = <<>>, !.captured = FALSE]

\* a call of saveWorkflow is under way
SaveInFlight == \E i \in DOMAIN inflight : inflight[i].kind = "save"

\* the nodes hold the edit: the node is at the position it was dragged to
HoldsEdit(ns, edit) ==
  /\ FindNode(ns, edit.id) # <<>>
  /\ FindNode(ns, edit.id)[1].position = edit.position

Ready == render \notin {"mount", "urgent"}

\* the effects of the first render: load from the backend (page.tsx:148) and
\* the auto-save effect (page.tsx:179), whose enableAutoSave sees no change yet
Mount ==
  /\ render = "mount"
  /\ state' = markAsChanged([state EXCEPT !.isLoading = TRUE])
  /\ inflight' = Append(inflight, Request("load", "mount", <<>>, <<>>))
  /\ render' = "loop"
  /\ op' = "mount"
  /\ UNCHANGED <<graphVars, undoVars, timers, autoSaveTimeout, backend, hist>>
  /\ UNCHANGED extVars

\* the auto-save effect of the page: it runs after every render, because the
\* object useWorkflow returns is a new one in every render, and markAsChanged
\* renders again
AutoSaveEffect ==
  /\ render \in {"urgent", "loop"}
  /\ IF Len(nodes) > 0 /\ Len(edges) >= 0
     THEN /\ state' = markAsChanged(state)
          /\ enableAutoSave(nodes, edges)
          /\ render' = "loop"
          /\ hist' = IF state.hasUnsavedChanges THEN Scheduled(nodes, edges)
                     ELSE [hist EXCEPT !.pre = <<>>, !.acted = FALSE]
     ELSE /\ UNCHANGED <<state, timers, autoSaveTimeout>>
          /\ render' = "idle"
          /\ hist' = [hist EXCEPT !.pre = <<>>, !.acted = FALSE]
  /\ op' = "autoSaveEffect"
  /\ UNCHANGED <<graphVars, undoVars, inflight, backend>>
  /\ UNCHANGED extVars

\* the user drags a node: onNodesChange sets its position
SaveDrag ==
  \E i \in DOMAIN nodes, p \in DragPositions :
    /\ Ready
    /\ nodes[i].id \in DragIds
    /\ nodes[i].position # p
    /\ DragNode(i, p)
    /\ render' = "urgent"
    /\ op' = "onNodesChange"
    /\ hist' = [Edited EXCEPT !.edit = IF SaveInFlight
                                       THEN <<[id |-> nodes[i].id, position |-> p]>>
                                       ELSE <<>>]
    /\ UNCHANGED <<edges, selectedNode, selectedEdge, undoVars, timers, autoSaveTimeout,
                   state, inflight, backend>>
    /\ UNCHANGED extVars

\* the Save button: workflow.save(nodes, edges) up to the fetch of saveWorkflow
SaveClick ==
  /\ Ready
  /\ ~(state.isSaving \/ (~state.hasUnsavedChanges /\ state.lastSaved # <<>>))
  /\ Len(inflight) < MaxInflight
  /\ state' = [state EXCEPT !.isSaving = TRUE]
  /\ inflight' = Append(inflight, Request("save", "hook", nodes, edges))
  /\ render' = "urgent"
  /\ op' = "save"
  /\ hist' = [hist EXCEPT !.afterFailure = "none",
                          !.manual = IF AutoSaveTimers # {}
                                     THEN <<Snapshot(nodes, edges)>> ELSE <<>>,
                          !.pre = <<>>, !.acted = FALSE]
  /\ UNCHANGED <<graphVars, undoVars, timers, autoSaveTimeout, backend>>
  /\ UNCHANGED extVars

\* the Load button: workflow.load() up to the fetch of loadWorkflow
LoadClick ==
  /\ Ready
  /\ ~state.isLoading
  /\ Len(inflight) < MaxInflight
  /\ state' = [state EXCEPT !.isLoading = TRUE]
  /\ inflight' = Append(inflight, Request("load", "button", <<>>, <<>>))
  /\ render' = "urgent"
  /\ op' = "load"
  /\ UNCHANGED <<graphVars, undoVars, timers, autoSaveTimeout, backend, hist>>
  /\ UNCHANGED extVars

\* the callback of the autosave timer, up to the fetch of saveWorkflow
AutoSaveFire ==
  \E t \in timers :
    /\ Ready
    /\ t.kind = "autosave"
    /\ t.remaining = 0
    /\ Len(inflight) < MaxInflight
    /\ timers' = timers \ {t}
    /\ inflight' = Append(inflight, Request("save", "timer", t.nodes, t.edges))
    /\ op' = "autoSaveFire"
    /\ hist' = [hist EXCEPT !.fires = IF @ < 2 THEN @ + 1 ELSE 2,
                            !.sent = <<Snapshot(t.nodes, t.edges)>>,
                            !.captured = \/ @
                                         \/ /\ hist.edit # <<>>
                                            /\ HoldsEdit(t.nodes, hist.edit[1]),
                            !.pre = <<>>, !.acted = FALSE]
    /\ UNCHANGED <<graphVars, undoVars, autoSaveTimeout, state, backend, render>>
    /\ UNCHANGED extVars

\* saveWorkflow gets its answer; a save made by useWorkflow.save goes on there
SaveResponse ==
  \E i \in DOMAIN inflight, outcome \in Outcomes :
    /\ Ready
    /\ inflight[i].kind = "save"
    /\ inflight' = RemoveAt(inflight, i)
    /\ backend' = IF outcome = "ok"
                  THEN Snapshot(inflight[i].nodes, inflight[i].edges) ELSE backend
    /\ IF inflight[i].via = "hook"
       THEN /\ state' = SavedState(state, outcome = "ok")
            /\ render' = "urgent"
       ELSE UNCHANGED <<state, render>>
    /\ op' = IF outcome = "ok" THEN "saveSucceeded" ELSE "saveFailed"
    /\ hist' = [hist EXCEPT !.via = inflight[i].via,
                            !.afterFailure = IF outcome = "ok" THEN @ ELSE "failed",
                            !.kept = (state' = [state EXCEPT !.isSaving = FALSE]),
                            !.pre = <<>>, !.acted = FALSE]
    /\ UNCHANGED <<graphVars, undoVars, timers, autoSaveTimeout>>
    /\ UNCHANGED extVars

\* loadWorkflow gets its answer: useWorkflow.load, then the caller's setNodes/setEdges
LoadResponse ==
  \E i \in DOMAIN inflight, outcome \in Outcomes :
    /\ Ready
    /\ inflight[i].kind = "load"
    /\ state' = LoadedState(state, outcome = "ok")
    /\ IF inflight[i].via = "button"
       THEN /\ inflight' = RemoveAt(inflight, i)
            /\ IF outcome = "ok"
               THEN nodes' = backend.nodes /\ edges' = backend.edges
               ELSE UNCHANGED <<nodes, edges>>
       ELSE IF outcome = "ok" /\ Len(backend.nodes) > 0
            THEN /\ inflight' = RemoveAt(inflight, i)
                 /\ nodes' = backend.nodes /\ edges' = backend.edges
            ELSE /\ inflight' = [inflight EXCEPT ![i] =
                                   Request("layout", "mount", initialNodes, initialEdges)]
                 /\ UNCHANGED <<nodes, edges>>
    /\ render' = "urgent"
    /\ op' = IF outcome = "ok" THEN "loadSucceeded" ELSE "loadFailed"
    /\ hist' = IF nodes' # nodes \/ edges' # edges THEN Edited
               ELSE [hist EXCEPT !.pre = <<>>, !.acted = FALSE]
    /\ UNCHANGED <<selectedNode, selectedEdge, undoVars, timers, autoSaveTimeout, backend>>
    /\ UNCHANGED extVars

\* getLayoutedElements of the first load answers: setNodes, setEdges
LayoutDone ==
  \E i \in DOMAIN inflight :
    /\ Ready
    /\ inflight[i].kind = "layout"
    /\ inflight' = RemoveAt(inflight, i)
    /\ nodes' = LayoutedNodes(inflight[i].nodes)
    /\ edges' = inflight[i].edges
    /\ render' = "urgent"
    /\ op' = "layoutDone"
    /\ hist' = Edited
    /\ UNCHANGED <<selectedNode, selectedEdge, undoVars, timers, autoSaveTimeout, state,
                   backend>>
    /\ UNCHANGED extVars

SaveTick ==
  /\ Ready
  /\ Tick

NextSave ==
  \/ Mount
  \/ AutoSaveEffect
  \/ SaveDrag
  \/ SaveClick
  \/ LoadClick
  \/ AutoSaveFire
  \/ SaveResponse
  \/ LoadResponse
  \/ LayoutDone
  \/ SaveTick

SpecSave == Init /\ [][NextSave]_vars

\* the page left open with the user editing no more than a drag: the effects,
\* the timers and the answers of the backend.  The effect runs after every
\* render, a timer that is due runs, time passes and every request is answered
NextIdle ==
  \/ Mount
  \/ AutoSaveEffect
  \/ SaveDrag
  \/ AutoSaveFire
  \/ SaveResponse
  \/ LoadResponse
  \/ LayoutDone
  \/ SaveTick

SpecIdle ==
  /\ Init
  /\ [][NextIdle]_vars
  /\ WF_vars(Mount)
  /\ WF_vars(AutoSaveEffect)
  /\ WF_vars(AutoSaveFire)
  /\ WF_vars(SaveResponse)
  /\ WF_vars(LoadResponse)
  /\ WF_vars(LayoutDone)
  /\ WF_vars(SaveTick)

\* the page with its two kinds of timers: the auto-save effect that runs
\* after every render, and the deletions of nodes with their undo
NextTimers ==
  \/ Mount
  \/ AutoSaveEffect
  \/ SaveTick
  \/ NodeClick
  \/ RemoveNode
  \/ Undo
  \/ DismissUndo
  \/ UndoTimeout

SpecTimers == Init /\ [][NextTimers]_vars

\* the page is left: React runs the cleanups of the effects, of which only the
\* one of page.tsx:239-246 does something; disableAutoSave is empty and nothing
\* calls it, and the autosave timer lives in the module of actions/workflow.ts
Unmount ==
  /\ render \notin {"mount", "unmounted"}
  /\ timers' = ClearTimeout(timers, undoTimeoutRef)
  /\ render' = "unmounted"
  /\ op' = "unmount"
  /\ UNCHANGED <<graphVars, undoVars, autoSaveTimeout, state, inflight, backend, hist>>
  /\ UNCHANGED extVars

\* what the page does only while it is mounted
MountedLoadResponse == render # "unmounted" /\ LoadResponse
MountedLayoutDone == render # "unmounted" /\ LayoutDone
MountedNodeClick == render # "unmounted" /\ NodeClick
MountedRemoveNode == render # "unmounted" /\ RemoveNode

\* the page with its timers, until and after it is left
NextUnmount ==
  \/ Mount
  \/ AutoSaveEffect
  \/ MountedLoadResponse
  \/ MountedLayoutDone
  \/ MountedNodeClick
  \/ MountedRemoveNode
  \/ Unmount
  \/ SaveTick
  \/ AutoSaveFire
  \/ SaveResponse
  \/ UndoTimeout

SpecUnmount == Init /\ [][NextUnmount]_vars

-----------------------------------------------------------------------------
(* Editing the graph: CreateTab, ConnectTab, EditTab and the canvas *)

\* the names typed into the create form, the type chosen there, and the
\* position Math.random() gives the new node
NewNodeNames == {"Worker"}
NewNodeTypes == {"agent"}
NewPositions == {[x |-> 250, y |-> 250]}

\* the edges the user clicks on
EdgeClickIds == {"e-agent-end"}

\* the nodes the user picks in the forms and drags connections between
PickIds == {"agent", "tools", "end"}

\* `node-${Date.now()}` and `edge-${Date.now()}`
NewNodeId == "node-" \o ToString(clock)
NewEdgeId == "edge-" \o ToString(clock)

\* what the create form holds when its button is clicked: the name, the type
\* (the form offers agent and tools), the instructions of an agent and the
\* tools ticked
FormNames == {"", "Worker"}
FormTypes == {"agent", "tools"}
FormPrompts == {"", "Be brief"}
FormSelections == {<<>>, <<"rag">>, <<"crawler">>}

\* !text.trim()
IsBlank(content) == content \in {"", " "}

\* the disabled attribute of the Create button
createDisabled_BlankNameOnly(name, type, prompt, selection) == IsBlank(name)

createDisabled(name, type, prompt, selection) ==
  \/ IsBlank(name)
  \/ type = "agent" /\ IsBlank(prompt)
  \/ type = "tools" /\ Len(selection) = 0

\* the nodeData addNode builds (description: newNodeDescription || undefined)
NewNodeData(name, description, type, prompt, selection) ==
  LET desc == IF description = "" THEN <<>> ELSE <<description>>
  IN  CASE type = "agent" ->
             [name |-> name, description |-> desc, nodeType |-> "agent",
              prompt |-> prompt]
        [] type = "tools" ->
             [name |-> name, description |-> desc, nodeType |-> "tools",
              selectedTools |-> selection]
        [] OTHER -> [name |-> name, description |-> desc, nodeType |-> type]

\* CreateTab.addNode
addNode(name, description, type, prompt, selection, position) ==
  IF IsBlank(name) THEN UNCHANGED nodes
  ELSE nodes' = Append(nodes,
         [id |-> NewNodeId, position |-> position,
          data |-> NewNodeData(name, description, type, prompt, selection)])

\* node.tsx getConnectionConfig: the ids of the handles a node of the type has
HandleIds(nodeType) ==
  CASE nodeType = "start" -> {"output"}
    [] nodeType = "end" -> {"input"}
    [] OTHER -> {"input", "output"}

HandlesOfNode(id) == HandleIds(FindNode(nodes, id)[1].data.nodeType)

\* handle?.startsWith('output'), handle?.startsWith('input')
IsOutputPort(handle) == handle \in {"output"}
IsInputPort(handle) == handle \in {"input"}

Connection(source, sourceHandle, target, targetHandle) ==
  [source |-> source, sourceHandle |-> sourceHandle,
   target |-> target, targetHandle |-> targetHandle]

isValidConnection_Any(connection) == TRUE

\* page.tsx isValidConnection, the same test as the guard of onConnect
isValidConnection(connection) ==
  IsOutputPort(connection.sourceHandle) /\ IsInputPort(connection.targetHandle)

\* addEdge of @xyflow/react: the edges as they are when the connection is
\* among them, else the edges with an edge for the connection
XyAddEdge(connection, eds) ==
  IF \E i \in DOMAIN eds :
       /\ eds[i].source = connection.source
       /\ eds[i].target = connection.target
       /\ eds[i].sourceHandle = connection.sourceHandle
       /\ eds[i].targetHandle = connection.targetHandle
  THEN eds
  ELSE Append(eds,
         [id |-> "xy-edge__" \o connection.source \o connection.sourceHandle
                   \o "-" \o connection.target \o connection.targetHandle,
          source |-> connection.source, target |-> connection.target,
          sourceHandle |-> connection.sourceHandle,
          targetHandle |-> connection.targetHandle])

\* page.tsx onConnect
onConnect(connection) ==
  edges' = IF isValidConnection(connection) THEN XyAddEdge(connection, edges) ELSE edges

\* ConnectTab.addEdge with the node ids chosen in the form
addEdge(sourceNodeId, targetNodeId) ==
  IF sourceNodeId = "" \/ targetNodeId = "" \/ sourceNodeId = targetNodeId
  THEN edges' = edges
  ELSE IF \E i \in DOMAIN edges :
            edges[i].source = sourceNodeId /\ edges[i].target = targetNodeId
       THEN edges' = edges
       ELSE edges' = Append(edges,
              [id |-> NewEdgeId, source |-> sourceNodeId, target |-> targetNodeId,
               sourceHandle |-> "output", targetHandle |-> "input"])

\* EditTab.updateEdgeConnection
updateEdgeConnection(field, nodeId) ==
  LET sel == selectedEdge[1]
      rewired(e) == IF field = "source" THEN [e EXCEPT !.source = nodeId]
                    ELSE [e EXCEPT !.target = nodeId]
  IN  IF \/ field = "source" /\ nodeId = sel.target
         \/ field = "target" /\ nodeId = sel.source
      THEN UNCHANGED <<edges, selectedEdge>>
      ELSE /\ edges' = [i \in DOMAIN edges |->
                          IF edges[i].id = sel.id THEN rewired(edges[i]) ELSE edges[i]]
           /\ selectedEdge' = <<rewired(sel)>>

\* the history of a step that edits the graph
Attempt(conn) ==
  [hist EXCEPT !.pre = <<>>, !.acted = (nodes' # nodes \/ edges' # edges),
               !.conn = conn]

\* the clock goes on by a millisecond
ClockTick ==
  /\ clock < MaxClock
  /\ clock' = clock + 1
  /\ op' = "clock"
  /\ hist' = [hist EXCEPT !.pre = <<>>, !.acted = FALSE, !.conn = <<>>]
  /\ UNCHANGED <<graphVars, undoVars, timers, saveVars, layoutVars, coord, chat, server>>

\* the Create button of the create form, with an agent filled in
AddNode ==
  \E name \in NewNodeNames, type \in NewNodeTypes, position \in NewPositions :
    /\ Len(nodes) < MaxNodes
    /\ ~createDisabled(name, type, "Be brief", <<>>)
    /\ addNode(name, "", type, "Be brief", <<>>, position)
    /\ op' = "addNode"
    /\ UNCHANGED <<edges, selectedNode, selectedEdge, undoVars, timers, saveVars, extVars>>
    /\ hist' = Attempt(<<>>)

\* the Create button of the create form, whatever the form holds; the click
\* on a disabled button calls no handler
FormAddNode ==
  \E name \in FormNames, type \in FormTypes, prompt \in FormPrompts,
     selection \in FormSelections, position \in NewPositions :
    /\ Len(nodes) < MaxNodes
    /\ IF createDisabled(name, type, prompt, selection)
       THEN UNCHANGED nodes
       ELSE addNode(name, "", type, prompt, selection, position)
    /\ op' = "addNode"
    /\ UNCHANGED <<edges, selectedNode, selectedEdge, undoVars, timers, saveVars, extVars>>
    /\ hist' = [Attempt(<<[name |-> name, type |-> type, prompt |-> prompt,
                           selection |-> selection]>>)
                 EXCEPT !.pre = <<[nodes |-> nodes, edges |-> edges]>>]

\* the user drags a connection from a handle of a node to a handle of a node
\* (ConnectionMode.Loose: from any handle to any other handle)
Connect ==
  \E source \in NodeIds(nodes) \cap PickIds,
     target \in NodeIds(nodes) \cap PickIds :
    \E sourceHandle \in HandlesOfNode(source), targetHandle \in HandlesOfNode(target) :
      /\ Len(edges) < MaxEdges
      /\ ~(source = target /\ sourceHandle = targetHandle)
      /\ onConnect(Connection(source, sourceHandle, target, targetHandle))
      /\ op' = "onConnect"
      /\ UNCHANGED <<nodes, selectedNode, selectedEdge, undoVars, timers, saveVars, extVars>>
      /\ hist' = Attempt(<<Connection(source, sourceHandle, target, targetHandle)>>)

\* the Create Connection button of the connect form
FormAddEdge ==
  \E sourceNodeId \in NodeIds(nodes) \cap PickIds,
     targetNodeId \in NodeIds(nodes) \cap PickIds :
    /\ Len(edges) < MaxEdges
    /\ addEdge(sourceNodeId, targetNodeId)
    /\ op' = "addEdge"
    /\ UNCHANGED <<nodes, selectedNode, selectedEdge, undoVars, timers, saveVars, extVars>>
    /\ hist' = Attempt(<<Connection(sourceNodeId, "output", targetNodeId, "input")>>)

\* page.tsx onEdgeClick
EdgeClick ==
  \E i \in DOMAIN edges :
    /\ edges[i].id \in EdgeClickIds
    /\ selectedEdge' = <<edges[i]>>
    /\ selectedNode' = <<>>
    /\ op' = "onEdgeClick"
    /\ hist' = [hist EXCEPT !.pre = <<>>, !.acted = FALSE, !.conn = <<>>]
    /\ UNCHANGED <<nodes, edges, undoVars, timers, saveVars, extVars>>

\* the Edit connection button of the list of connections of the connect tab
EditConnection ==
  \E i \in DOMAIN edges :
    /\ edges[i].id \in EdgeClickIds
    /\ selectedEdge' = <<edges[i]>>
    /\ op' = "editConnection"
    /\ hist' = [NoHist EXCEPT !.acted = FALSE]
    /\ UNCHANGED <<nodes, edges, selectedNode, undoVars, timers, saveVars, extVars>>

\* the edit tab shows the selects of the connection when it does not show the
\* form of a node
EdgePanelShown ==
  /\ ~(selectedNode # <<>> /\ CurrentNode # <<>>)
  /\ selectedEdge # <<>>

\* the From Node and To Node selects of the edit tab
RewireEdge ==
  \E field \in {"source", "target"}, nodeId \in NodeIds(nodes) \cap PickIds :
    /\ EdgePanelShown
    /\ updateEdgeConnection(field, nodeId)
    /\ op' = "updateEdgeConnection"
    /\ UNCHANGED <<nodes, selectedNode, undoVars, timers, saveVars, extVars>>
    /\ hist' = Attempt(<<>>)

\* the same selects, with the graph and the selection of before the change
\* kept in the history
RewireConnection ==
  \E field \in {"source", "target"}, nodeId \in NodeIds(nodes) \cap PickIds :
    /\ EdgePanelShown
    /\ updateEdgeConnection(field, nodeId)
    /\ op' = "updateEdgeConnection"
    /\ UNCHANGED <<nodes, selectedNode, undoVars, timers, saveVars, extVars>>
    /\ hist' = [NoHist EXCEPT !.pre = <<[nodes |-> nodes, edges |-> edges]>>,
                              !.acted = (edges' # edges),
                              !.conn = <<[field |-> field, nodeId |-> nodeId,
                                          selected |-> selectedEdge[1]]>>]

\* EditTab.removeEdge
RemoveEdge ==
  /\ selectedNode = <<>>
  /\ selectedEdge # <<>>
  /\ edges' = SelectSeq(edges, LAMBDA e : e.id # selectedEdge[1].id)
  /\ selectedEdge' = <<>>
  /\ op' = "removeEdge"
  /\ UNCHANGED <<nodes, selectedNode, undoVars, timers, saveVars, extVars>>
  /\ hist' = Attempt(<<>>)

\* the Load button, answered by the backend with the workflow it stores
LoadGraph ==
  /\ ~state.isLoading
  /\ state' = LoadedState([state EXCEPT !.isLoading = TRUE], TRUE)
  /\ nodes' = backend.nodes
  /\ edges' = backend.edges
  /\ op' = "loadGraph"
  /\ UNCHANGED <<selectedNode, selectedEdge, undoVars, timers, autoSaveTimeout, inflight,
                 backend, render, extVars>>
  /\ hist' = Attempt(<<>>)

NextGraph ==
  \/ ClockTick
  \/ AddNode
  \/ Connect
  \/ FormAddEdge
  \/ EdgeClick
  \/ RewireEdge
  \/ RemoveEdge

SpecGraph == Init /\ [][NextGraph]_vars

\* the create form alone
NextCreate ==
  \/ ClockTick
  \/ FormAddNode

SpecCreate == Init /\ [][NextCreate]_vars

RefusesRemoval_Never(node) == FALSE

\* EditTab.removeNode: the early return for a node of the system
RefusesRemoval(node) == node.data.nodeType \in {"start", "end"}

\* the Delete button of the edit panel on whatever node is selected:
\* EditTab.removeNode with its early return
RemoveSelectedNode ==
  /\ selectedNode # <<>>
  /\ CurrentNode # <<>>
  /\ IF RefusesRemoval(selectedNode[1])
     THEN UNCHANGED <<nodes, edges, selectedNode, undoVars, timers>>
     ELSE /\ handleDeleteNode(selectedNode[1])
          /\ selectedNode' = <<>>
  /\ op' = "removeNode"
  /\ hist' = [NoHist EXCEPT !.deletedId = selectedNode[1].id,
                            !.acted = ~RefusesRemoval(selectedNode[1])]
  /\ UNCHANGED <<selectedEdge, saveVars>>
  /\ UNCHANGED extVars

\* the Create button while the graph holds few nodes more than it started with
CreateNode ==
  /\ Len(nodes) < Len(initialNodes) + MaxCreated
  /\ FormAddNode

\* the local edits that add and remove nodes
NextSystem ==
  \/ NodeClick
  \/ CreateNode
  \/ RemoveSelectedNode
  \/ Undo

SpecSystem == Init /\ [][NextSystem]_vars

\* the connections edited from the list of the connect tab, with deletions
\* of nodes and their undo between the edits
NextRewire ==
  \/ NodeClick
  \/ EditConnection
  \/ RemoveNode
  \/ Undo
  \/ RewireConnection

SpecRewire == Init /\ [][NextRewire]_vars

\* deletion and undo of a node, with new edges and loads between them
NextRestore ==
  \/ NodeClick
  \/ RemoveNode
  \/ Undo
  \/ FormAddEdge
  \/ LoadGraph

SpecRestore == Init /\ [][NextRestore]_vars

-----------------------------------------------------------------------------
(* The operations of actions/workflow.ts, each called with an answer of the backend *)

Operations == {"save", "load", "validate", "execute", "clear"}

\* the session ids a caller passes to executeWorkflow: none, or an id in UUID format
UuidIds == {"6f1c2a9e-0b7d-4c3a-9e21-5d8f7a6b4c10"}
SessionArgs == {<<>>} \cup {<<id>> : id \in UuidIds}

\* what fetch gives: it throws, or a response with a status and a body; a body
\* that parses is the envelope {message, status_code, data, error}
Responses ==
  {[status |-> "network_error", body |-> "none", error |-> "", dataStatus |-> "none"]}
  \cup {[status |-> st, body |-> "unparseable", error |-> "", dataStatus |-> "none"] :
          st \in {"2xx", "non2xx"}}
  \cup {[status |-> st, body |-> "json", error |-> e, dataStatus |-> d] :
          st \in {"2xx", "non2xx"}, e \in {"", "backend error"},
          d \in {"completed", "failed"}}

\* the message of the error fetch and response.json() throw
ThrownMessage(response) ==
  IF response.status = "network_error" THEN "fetch failed"
  ELSE "Unexpected token < in JSON at position 0"

\* `result.error || 'Failed to ... workflow'`
FallbackError(operation) ==
  CASE operation = "save" -> "Failed to save workflow"
    [] operation = "load" -> "Failed to load workflow"
    [] operation = "validate" -> "Failed to validate workflow"
    [] operation = "execute" -> "Failed to execute workflow"
    [] OTHER -> "Failed to clear workflow"

Failure(error) == [success |-> FALSE, error |-> error, data |-> <<>>]

\* result.data of the envelope
ResponseData(response) ==
  [status |-> response.dataStatus,
   error |-> IF response.dataStatus = "failed" THEN "Invalid session id" ELSE ""]

OkResult_RejectsFailed(response) ==
  IF response.dataStatus = "failed"
  THEN Failure(ResponseData(response).error)
  ELSE [success |-> TRUE, error |-> "", data |-> <<ResponseData(response)>>]

\* `return { success: true, data: result.data, message: result.message }`
OkResult(response) ==
  [success |-> TRUE, error |-> "", data |-> <<ResponseData(response)>>]

\* saveWorkflow, loadWorkflow, validateWorkflow, executeWorkflow: the body is
\* parsed before the status is looked at
ParsedResult(operation, response) ==
  IF response.status = "network_error" \/ response.body = "unparseable"
  THEN Failure(ThrownMessage(response))
  ELSE IF response.status = "non2xx"
       THEN Failure(IF response.error # "" THEN response.error
                    ELSE FallbackError(operation))
       ELSE OkResult(response)

\* clearWorkflow: the body is parsed only when the status is not 2xx
ClearResult(response) ==
  IF response.status = "network_error"
  THEN Failure(ThrownMessage(response))
  ELSE IF response.status = "non2xx"
       THEN IF response.body = "unparseable"
            THEN Failure(ThrownMessage(response))
            ELSE Failure(IF response.error # "" THEN response.error
                         ELSE FallbackError("clear"))
       ELSE [success |-> TRUE, error |-> "", data |-> <<>>]

Result(operation, response) ==
  IF operation = "clear" THEN ClearResult(response)
  ELSE ParsedResult(operation, response)

\* executeWorkflow: `session_id: sessionId || \`workflow-${Date.now()}\``
SentSessionId(sessionId) ==
  IF sessionId # <<>> THEN sessionId[1] ELSE "workflow-" \o ToString(clock)

\* a call of an operation of actions/workflow.ts and the answer it gets; a
\* call of executeWorkflow without a session id is the Run button of the page
CoordCall ==
  \E operation \in Operations, sessionId \in SessionArgs, response \in Responses :
    /\ operation # "execute" => sessionId = <<>>
    /\ coord' = [operation |-> operation, sessionId |-> sessionId, fetched |-> TRUE,
                 response |-> response, result |-> <<Result(operation, response)>>,
                 sent |-> IF operation = "execute"
                          THEN <<SentSessionId(sessionId)>> ELSE <<>>]
    /\ op' = "coordCall"
    /\ hist' = [hist EXCEPT !.prevSent =
                  IF operation = "execute" /\ sessionId = <<>> /\ coord.sent # <<>>
                     /\ coord.sessionId = <<>>
                  THEN coord.sent ELSE <<>>]
    /\ UNCHANGED <<graphVars, undoVars, timers, saveVars, layoutVars, clock, chat, server>>

CoordClock ==
  /\ clock < MaxClock
  /\ clock' = clock + 1
  /\ op' = "clock"
  /\ UNCHANGED <<graphVars, undoVars, timers, saveVars, layoutVars, coord, chat, server, hist>>

NextCoord ==
  \/ CoordCall
  \/ CoordClock

SpecCoord == Init /\ [][NextCoord]_vars

-----------------------------------------------------------------------------
(* The chat session of useChatSession *)

\* what the user types into the message input
ChatInputs == {"", "hello", "run it"}

\* how sendMessage of actions/chat ends: with the answer of the assistant, with
\* {success: false, error}, or by throwing
ChatOutcomes == {"ok", "success_false", "throws"}

\* addMessageAtom: the message is put at the end of the messages of the session
\* with this id
addMessage_EverySession(sessions, sessionId, message) ==
  [s \in DOMAIN sessions |->
     [sessions[s] EXCEPT !.messages = Append(@, message)]]

addMessage(sessions, sessionId, message) ==
  [sessions EXCEPT ![sessionId].messages = Append(@, message)]

\* setLoadingAtom: the loading flag of the session with this id
setLoading(sessions, sessionId, isLoading) ==
  [sessions EXCEPT ![sessionId].isLoading = isLoading]

sendRefused_BlankOnly(content, isLoading) == IsBlank(content)

\* the early return of sendChatMessage, for a message with no attachments
sendRefused(content, isLoading) == IsBlank(content) \/ isLoading

\* sendChatMessage of the hook of one session, up to the await of sendMessage
SendChatMessage ==
  \E sessionId \in ChatSessionIds, content \in ChatInputs :
    /\ ~sendRefused(content, chat[sessionId].isLoading)
    /\ Len(chat[sessionId].messages) + 2 <= MaxMessages
    /\ chat' = [addMessage(setLoading(chat, sessionId, TRUE), sessionId,
                           [role |-> "user", content |-> content])
                  EXCEPT ![sessionId].pending = <<content>>]
    /\ op' = "sendChatMessage"
    /\ hist' = [hist EXCEPT !.before = <<chat[sessionId].messages>>,
                            !.session = sessionId]
    /\ UNCHANGED <<graphVars, undoVars, timers, saveVars, layoutVars, clock, coord, server>>

\* sendChatMessage after the await: the answer, or the catch block, then finally
ChatResponse ==
  \E sessionId \in ChatSessionIds, outcome \in ChatOutcomes :
    /\ chat[sessionId].pending # <<>>
    /\ chat' = [setLoading(
                   addMessage(chat, sessionId,
                     IF outcome = "ok"
                     THEN [role |-> "assistant", content |-> "answer"]
                     ELSE [role |-> "assistant",
                           content |-> IF outcome = "throws" THEN "Error: fetch failed"
                                       ELSE "Error: Failed to send message"]),
                   sessionId, FALSE)
                  EXCEPT ![sessionId].pending = <<>>]
    /\ op' = IF outcome = "ok" THEN "chatAnswered" ELSE "chatFailed"
    /\ hist' = [hist EXCEPT !.session = sessionId,
                            !.before = IF sessionId = hist.session THEN @ ELSE <<>>]
    /\ UNCHANGED <<graphVars, undoVars, timers, saveVars, layoutVars, clock, coord, server>>

NextChat ==
  \/ SendChatMessage
  \/ ChatResponse

SpecChat == Init /\ [][NextChat]_vars

\* sendChatMessage of the hook of one session returning early
SendIgnored ==
  \E sessionId \in ChatSessionIds, content \in ChatInputs :
    /\ sendRefused(content, chat[sessionId].isLoading)
    /\ op' = "sendIgnored"
    /\ hist' = [hist EXCEPT !.session = sessionId, !.before = <<>>,
                            !.ignored = <<content>>]
    /\ UNCHANGED <<graphVars, undoVars, timers, saveVars, layoutVars, clock, coord, server,
                   chat>>

\* the sends of the chat pages, accepted or not; sendMessage settles for every
\* session that waits for it
NextSend ==
  \/ SendChatMessage
  \/ SendIgnored
  \/ ChatResponse

SpecSend ==
  /\ Init
  /\ [][NextSend]_vars
  /\ \A sessionId \in ChatSessionIds : WF_vars(ChatResponse /\ hist'.session = sessionId)

-----------------------------------------------------------------------------
(* The sessions of POST /api/v1/graphs/execute, as API_DOCUMENTATION.md states them *)

\* the values of is_new_chat a request body can hold, with their JSON type;
\* "absent" is the body without the parameter
IsNewChatInputs ==
  {[type |-> "boolean", text |-> t] : t \in {"true", "false"}}
  \cup {[type |-> "string", text |-> t] :
          t \in {"true", "True", "1", "false", "False", "0", "yes", "TRUE", ""}}
  \cup {[type |-> "number", text |-> t] : t \in {"1", "0", "2"}}
  \cup {[type |-> "null", text |-> "null"], [type |-> "absent", text |-> ""]}

\* the session_id of a request body: none, a UUID, or a string that is no UUID
ExecuteSessionArgs ==
  {<<>>, <<"invalid-format">>} \cup {<<id>> : id \in StoredSessionIds}

\* a coercion by truth value: every string but the empty one counts as true
coerceIsNewChat_Truthy(value) ==
  CASE value.type \in {"null", "absent"} -> "continue"
    [] value.type = "boolean" -> IF value.text = "true" THEN "new" ELSE "continue"
    [] value.type = "number" -> IF value.text = "0" THEN "continue" ELSE "new"
    [] OTHER -> IF value.text = "" THEN "continue" ELSE "new"

\* Boolean Handling: what is_new_chat is taken for; the default is false
coerceIsNewChat(value) ==
  CASE value.type \in {"null", "absent"} -> "continue"
    [] value.type = "boolean" -> IF value.text = "true" THEN "new" ELSE "continue"
    [] value.type = "number" ->
         IF value.text = "1" THEN "new"
         ELSE IF value.text = "0" THEN "continue" ELSE "rejected"
    [] OTHER ->
         IF value.text \in {"true", "True", "1"} THEN "new"
         ELSE IF value.text \in {"false", "False", "0"} THEN "continue"
         ELSE "rejected"

\* a context of the first messages of the conversation
contextOf_Oldest(messages) ==
  SubSeq(messages, 1, IF Len(messages) < ContextWindow THEN Len(messages)
                      ELSE ContextWindow)

\* Context Window: the last 10 messages of the conversation
contextOf(messages) ==
  SubSeq(messages,
         IF Len(messages) < ContextWindow THEN 1
         ELSE Len(messages) - ContextWindow + 1,
         Len(messages))

\* the answer to a request that was not executed
Refused(request, status) ==
  [isNewChat |-> request.isNewChat, sessionArg |-> request.sessionArg,
   mode |-> request.mode, status |-> status, sessionId |-> <<>>, context |-> <<>>]

\* the execution of a request in the conversation with the id: the context is
\* built from the stored messages, and the message of the user and the answer
\* are saved after them
Executed(request, id) ==
  LET stored == server.store[id]
  IN  [store |-> [server.store EXCEPT ![id] =
                    stored \o <<[type |-> "human", seq |-> Len(stored) + 1],
                                [type |-> "ai", seq |-> Len(stored) + 2]>>],
       last |-> [isNewChat |-> request.isNewChat, sessionArg |-> request.sessionArg,
                 mode |-> request.mode, status |-> "completed",
                 sessionId |-> <<id>>, context |-> contextOf(stored)]]

\* a request to the execute endpoint: validation, the session, the execution
ExecuteRequest ==
  \E value \in IsNewChatInputs, sessionArg \in ExecuteSessionArgs :
    LET request == [isNewChat |-> value, sessionArg |-> sessionArg,
                    mode |-> coerceIsNewChat(value)]
        unused == {id \in StoredSessionIds : server.store[id] = <<>>}
    IN  /\ IF request.mode = "rejected"
           THEN server' = [server EXCEPT !.last = Refused(request, "validation_error")]
           ELSE IF request.mode = "continue" /\ sessionArg = <<>>
           THEN server' = [server EXCEPT !.last = Refused(request, "validation_error")]
           ELSE IF sessionArg # <<>> /\ sessionArg[1] \notin StoredSessionIds
           THEN server' = [server EXCEPT !.last = Refused(request, "failed")]
           ELSE \E id \in (IF sessionArg # <<>> THEN {sessionArg[1]} ELSE unused) :
                  /\ Len(server.store[id]) + 2 <= MaxStored
                  /\ server' = Executed(request, id)
        /\ op' = "execute"
        /\ UNCHANGED <<graphVars, undoVars, timers, saveVars, layoutVars, clock, coord, chat>>
        /\ hist' = [NoHist EXCEPT
                      !.pre = <<server.store>>,
                      !.before = IF server'.last.status = "completed"
                                 THEN <<server.store[server'.last.sessionId[1]]>>
                                 ELSE <<>>]

NextSession ==
  \/ ExecuteRequest

SpecSession == Init /\ [][NextSession]_vars

-----------------------------------------------------------------------------
(* The operations of useWorkflow called with requests of others in flight *)

\* save, load, clear, validate, execute
HookOperations == {"save", "load", "clear", "validate", "execute"}

\* how a request of the hook ends: result.success, the else branch, the catch
HookOutcomes == {"success", "failure", "exception"}

\* the flag an operation of the hook sets when it starts and when it ends
BusyFlag(operation) ==
  CASE operation \in {"save", "clear"} -> "isSaving"
    [] operation = "load" -> "isLoading"
    [] operation = "validate" -> "isValidating"
    [] OTHER -> "isExecuting"

\* the setState of the end of an operation
HookDone(st, operation, outcome) ==
  IF outcome = "success" /\ operation \in {"save", "load", "clear"}
  THEN [st EXCEPT ![BusyFlag(operation)] = FALSE,
                  !.hasUnsavedChanges = FALSE, !.lastSaved = <<0>>]
  ELSE [st EXCEPT ![BusyFlag(operation)] = FALSE]

\* an operation of the hook is called: setState(prev => ({...prev, flag: true}))
\* and the request is sent, whatever is in flight
HookCall ==
  \E operation \in HookOperations :
    /\ Len(inflight) < MaxRequests
    /\ state' = [state EXCEPT ![BusyFlag(operation)] = TRUE]
    /\ inflight' = Append(inflight, Request(operation, "hook", nodes, edges))
    /\ op' = operation
    /\ UNCHANGED <<graphVars, undoVars, timers, autoSaveTimeout, backend, render, hist>>
    /\ UNCHANGED extVars

\* a request of the hook ends
HookResponse ==
  \E i \in DOMAIN inflight, outcome \in HookOutcomes :
    /\ inflight[i].via = "hook"
    /\ inflight[i].kind \in HookOperations
    /\ inflight' = RemoveAt(inflight, i)
    /\ state' = HookDone(state, inflight[i].kind, outcome)
    /\ backend' = CASE outcome = "success" /\ inflight[i].kind = "save" ->
                         Snapshot(inflight[i].nodes, inflight[i].edges)
                    [] outcome = "success" /\ inflight[i].kind = "clear" ->
                         Snapshot(<<>>, <<>>)
                    [] OTHER -> backend
    /\ op' = outcome
    /\ UNCHANGED <<graphVars, undoVars, timers, autoSaveTimeout, render, hist>>
    /\ UNCHANGED extVars

\* the second of time that ages lastSaved
HookTick ==
  /\ state.lastSaved # <<>>
  /\ Tick

NextHook ==
  \/ HookCall
  \/ HookResponse
  \/ HookTick

SpecHook == Init /\ [][NextHook]_vars

-----------------------------------------------------------------------------
(* The Auto Layout button of the page *)

\* isLayouting: a layout of the button is being computed
isLayouting == \E i \in DOMAIN inflight : inflight[i].via = "quick"

\* applyQuickLayout up to the await: getLayoutedElements(nodes, edges) is
\* called with the graph of the render the button was clicked in
ApplyQuickLayout ==
  /\ ~(Len(nodes) = 0 \/ isLayouting)
  /\ inflight' = Append(inflight, Request("layout", "quick", nodes, edges))
  /\ op' = "applyQuickLayout"
  /\ UNCHANGED <<graphVars, undoVars, timers, autoSaveTimeout, state, backend, render,
                 hist>>
  /\ UNCHANGED extVars

\* applyQuickLayout after the await: setNodes(layoutedNodes), setEdges(layoutedEdges)
QuickLayoutDone ==
  \E i \in DOMAIN inflight :
    /\ inflight[i].via = "quick"
    /\ inflight' = RemoveAt(inflight, i)
    /\ nodes' = LayoutedNodes(inflight[i].nodes)
    /\ edges' = inflight[i].edges
    /\ op' = "quickLayoutDone"
    /\ UNCHANGED <<selectedNode, selectedEdge, undoVars, timers, autoSaveTimeout, state,
                   backend, render, hist>>
    /\ UNCHANGED extVars

\* the graph edited while a layout of the button may be in flight
NextQuickLayout ==
  \/ ApplyQuickLayout
  \/ QuickLayoutDone
  \/ NodeClick
  \/ EditField
  \/ DeleteNode
  \/ AddNode
  \/ EdgeClick
  \/ RemoveEdge

SpecQuickLayout == Init /\ [][NextQuickLayout]_vars

-----------------------------------------------------------------------------
(* The layout module: lib/layout-utils *)

\* @xyflow/react Position
Position == [Left |-> "left", Top |-> "top", Right |-> "right", Bottom |-> "bottom"]

\* layoutDirections
layoutDirections == {"RIGHT", "DOWN", "LEFT", "UP"}

\* the graphs handed to getLayoutedElements: the nodes of the start graph that
\* a set of ids selects, with the edges between them
LayoutInputs ==
  {[nodes |-> SelectSeq(initialNodes, LAMBDA n : n.id \in ids),
    edges |-> SelectSeq(initialEdges, LAMBDA e : e.source \in ids /\ e.target \in ids)] :
     ids \in SUBSET NodeIds(initialNodes)}

\* elk.layout under the options: the k-th of n children is put in the k-th
\* layer, and the layers follow elk.direction
ElkLayout(options, k, n) ==
  CASE options["elk.direction"] = "RIGHT" -> ElkPosition(k)
    [] options["elk.direction"] = "DOWN" -> [x |-> ElkPosition(k).y, y |-> ElkPosition(k).x]
    [] options["elk.direction"] = "LEFT" -> ElkPosition(n + 1 - k)
    [] OTHER -> [x |-> ElkPosition(n + 1 - k).y, y |-> ElkPosition(n + 1 - k).x]

\* { ...node, targetPosition, sourcePosition, position }
LayoutedNode(node, isHorizontal, position) ==
  [field \in DOMAIN node \cup {"targetPosition", "sourcePosition", "position"} |->
     CASE field = "targetPosition" -> IF isHorizontal THEN Position.Left ELSE Position.Top
       [] field = "sourcePosition" -> IF isHorizontal THEN Position.Right
                                      ELSE Position.Bottom
       [] field = "position" -> position
       [] OTHER -> node[field]]

\* getLayoutedElements(nodes, edges), reading the options of the module
getLayoutedElements(options, ns, es) ==
  LET isHorizontal == options["elk.direction"] = "RIGHT"
  IN  [nodes |-> [k \in DOMAIN ns |->
                    LayoutedNode(ns[k], isHorizontal, ElkLayout(options, k, Len(ns)))],
       edges |-> es]

\* updateLayoutDirection(direction)
updateLayoutDirection(direction) ==
  elkOptions' = [elkOptions EXCEPT !["elk.direction"] = direction]

\* a caller sets the direction of the module
UpdateLayoutDirection ==
  \E direction \in layoutDirections :
    /\ elkOptions["elk.direction"] # direction
    /\ updateLayoutDirection(direction)
    /\ op' = "updateLayoutDirection"
    /\ UNCHANGED <<graphVars, undoVars, timers, saveVars, hist, layouted>>
    /\ UNCHANGED <<clock, coord, chat, server>>

\* a caller lays a graph out
GetLayoutedElements ==
  \E input \in LayoutInputs :
    /\ layouted' = <<[nodes |-> input.nodes, edges |-> input.edges,
                      result |-> getLayoutedElements(elkOptions, input.nodes,
                                                     input.edges)]>>
    /\ op' = "getLayoutedElements"
    /\ UNCHANGED <<graphVars, undoVars, timers, saveVars, hist, elkOptions>>
    /\ UNCHANGED <<clock, coord, chat, server>>

NextLayout ==
  \/ UpdateLayoutDirection
  \/ GetLayoutedElements

SpecLayout == Init /\ [][NextLayout]_vars

-----------------------------------------------------------------------------
(* Properties of the deletion of a node and its undo *)

EdgeTriples(es) == {<<es[i].id, es[i].source, es[i].target>> : i \in DOMAIN es}

\* C1: after removeNode(n) no edge of the graph has n as its source or its
\* target, and every edge that was not incident to n is still in the graph.
C1_CascadeDelete ==
  op = "removeNode" =>
    /\ \A e \in Range(edges) : e.source # hist.deletedId /\ e.target # hist.deletedId
    /\ \A e \in Range(hist.pre[1].edges) :
         (e.source # hist.deletedId /\ e.target # hist.deletedId) => e \in Range(edges)

C1_Witness ==
  /\ op = "removeNode"
  /\ hist.deletedId = "tools"
  /\ Len(hist.pre[1].edges) = 4
  /\ Len(edges) = 2

\* C2: removeNode(n) immediately followed by restore() gives a graph with the
\* node ids, the edge ids and the (source, target) of every edge of the graph
\* before the deletion.
C2_RestoreRoundTrip ==
  (op = "undoNodeDeletion" /\ hist.pre # <<>>) =>
    /\ NodeIds(nodes) = NodeIds(hist.pre[1].nodes)
    /\ EdgeIds(edges) = EdgeIds(hist.pre[1].edges)
    /\ EdgeTriples(edges) = EdgeTriples(hist.pre[1].edges)

C2_Witness ==
  /\ op = "undoNodeDeletion"
  /\ hist.pre # <<>>
  /\ hist.deletedId = "agent"
  /\ Len(hist.pre[1].edges) = 4
  /\ Len(edges) = 4

\* C3: the node restore() puts back is the node as it was in the graph when
\* removeNode ran (same id, data and position), also when it was edited or
\* moved after it was selected.
C3_RestoresGraphNode ==
  (op = "undoNodeDeletion" /\ hist.acted) => nodes[Len(nodes)] = hist.graphNode[1]

\* C4: when the undo timer runs, 10 seconds after the deletion, the record is
\* discarded and nothing is put back; restore() with no record pending changes
\* neither the graph nor the undo store.
C4_ExpiryAndEmptyRestore ==
  [][ /\ op' = "undoTimeout" =>
           /\ deletedNodeData' = <<>>
           /\ nodes' = nodes /\ edges' = edges
           /\ deletedNodeData # <<>> => deletedNodeData[1].timestamp = UndoDelay
      /\ (op' = "undoNodeDeletion" /\ deletedNodeData = <<>>) =>
           UNCHANGED <<nodes, edges, deletedNodeData, undoTimeoutRef, timers>>
    ]_vars

C4_Witness ==
  /\ op = "undoNodeDeletion"
  /\ hist.expired
  /\ ~hist.acted
  /\ hist.deletedId \notin NodeIds(nodes)

\* C5: the undo store holds at most one record, the record of the node deleted
\* last; after a deletion replaced a pending record, restore() puts back the
\* node deleted last and the node deleted before it stays out of the graph
\* with no record left to restore it from.
C5_SingleRecord ==
  /\ Len(deletedNodeData) <= 1
  /\ deletedNodeData # <<>> => deletedNodeData[1].node.id = hist.deletedId
  /\ (op = "undoNodeDeletion" /\ hist.acted /\ hist.superseded # "") =>
       /\ hist.deletedId \in NodeIds(nodes)
       /\ hist.superseded \notin NodeIds(nodes)
       /\ deletedNodeData = <<>>

C5_Witness ==
  /\ op = "undoNodeDeletion"
  /\ hist.acted
  /\ hist.superseded = "agent"
  /\ hist.deletedId = "tools"

-----------------------------------------------------------------------------
(* Properties of the save pipeline, of SpecSave *)

\* C6: calls of autoSaveWorkflow that each arrive before the timer of the call
\* before has fired leave one timer pending, and the one persistence call that
\* timer makes carries the arguments of the last of these calls
C6_DebounceCoalesces ==
  /\ Cardinality(AutoSaveTimers) <= 1
  /\ hist.fires <= 1
  /\ op = "autoSaveFire" => (hist.fires = 1 /\ hist.sent = hist.lastArgs)

C6_Witness ==
  /\ op = "autoSaveFire"
  /\ hist.calls = 2
  /\ hist.sent = hist.lastArgs

\* C7: when a persistence call succeeds, made by the autosave timer or by the
\* Save button, hasUnsavedChanges is false and lastSaved is the time of the answer
C7_SuccessMarksSaved ==
  op = "saveSucceeded" =>
    (state.hasUnsavedChanges = FALSE /\ state.lastSaved = <<0>>)

\* C8: a failed save leaves hasUnsavedChanges, lastSaved and the graph as they
\* were, and no autosave armed after the failure makes a persistence call
\* before the graph is edited or Save is pressed
C8_NoRetryAfterFailure ==
  /\ op = "saveFailed" => hist.kept
  /\ op = "autoSaveFire" => hist.afterFailure # "rescheduled"

\* C9: after the Save button was pressed while an autosave timer was pending,
\* no autosave timer makes a persistence call for the graph that was saved by hand
C9_ManualSaveCancelsTimer ==
  op = "autoSaveFire" => (hist.manual = <<>> \/ hist.sent # hist.manual)

\* C10: the graph the autosave timer sends is the graph at the time it fires
C10_SendsGraphAtFire ==
  op = "autoSaveFire" => hist.sent = <<Snapshot(nodes, edges)>>

-----------------------------------------------------------------------------
(* Properties of the edits of the graph, of SpecGraph and SpecRestore *)

\* C11: an edge is added, on the canvas or by the connect form, only for a
\* connection from an output port to an input port; every edge of the graph
\* leaves an output port and enters an input port
C11_PortDirection ==
  /\ \A i \in DOMAIN edges :
       IsOutputPort(edges[i].sourceHandle) /\ IsInputPort(edges[i].targetHandle)
  /\ (op \in {"onConnect", "addEdge"} /\ hist.acted) =>
       (IsOutputPort(hist.conn[1].sourceHandle) /\ IsInputPort(hist.conn[1].targetHandle))

C11_Witness ==
  /\ op = "onConnect"
  /\ IsInputPort(hist.conn[1].sourceHandle)
  /\ ~hist.acted

\* C12: no edge of the graph has its source as its target
C12_NoSelfLoop ==
  \A i \in DOMAIN edges : edges[i].source # edges[i].target

\* C13: no two edges of the graph have the same source and the same target
C13_OneEdgePerPair ==
  \A i, j \in DOMAIN edges :
    (i # j) => ~(edges[i].source = edges[j].source /\ edges[i].target = edges[j].target)

\* C14: the source and the target of every edge are ids of nodes of the graph
C14_NoDanglingEndpoints ==
  \A i \in DOMAIN edges :
    edges[i].source \in NodeIds(nodes) /\ edges[i].target \in NodeIds(nodes)

\* C15: the ids of the nodes are pairwise distinct, and so are the ids of the edges
C15_UniqueIds ==
  /\ Cardinality(NodeIds(nodes)) = Len(nodes)
  /\ Cardinality(EdgeIds(edges)) = Len(edges)

-----------------------------------------------------------------------------
(* Properties of the operations of actions/workflow.ts, of SpecCoord *)

\* C16: an execute without a session id is refused before any network call,
\* with an error result that names the missing session id
C16_RejectsMissingSession ==
  (coord.operation = "execute" /\ coord.sessionId = <<>>) =>
    (~coord.fetched /\ ~coord.result[1].success)

\* C17: the session id sent for an execute without a session id has the UUID
\* format, and two executes of the page that follow each other send the same id
C17_OneSessionId ==
  (coord.operation = "execute" /\ coord.sessionId = <<>>) =>
    /\ coord.sent[1] \in UuidIds
    /\ hist.prevSent # <<>> => coord.sent = hist.prevSent

\* C18: an execute answered with a 2xx status and data.status "failed" gives
\* {success: true} with the status and the error of the data, which differs
\* from the result of a failed transport and from that of a completed execution
C18_DomainErrorIsSuccess ==
  (/\ coord.operation = "execute"
   /\ coord.response.status = "2xx"
   /\ coord.response.body = "json"
   /\ coord.response.dataStatus = "failed") =>
    /\ coord.result[1].success
    /\ coord.result[1].data # <<>>
    /\ coord.result[1].data[1].status = "failed"
    /\ coord.result[1].data[1].error # ""
    /\ \A other \in Responses :
         (other.status # "2xx" \/ other.body # "json" \/ other.dataStatus # "failed")
           => Result("execute", other) # coord.result[1]

C18_Witness ==
  /\ coord.operation = "execute"
  /\ coord.response.status = "2xx"
  /\ coord.response.body = "json"
  /\ coord.response.dataStatus = "failed"
  /\ coord.result[1].success

\* C19: every operation gives a result with a boolean success, and a failed
\* network, a status that is not 2xx or a body that does not parse gives
\* success false with an error that is not empty
C19_FailuresAreNormalized ==
  coord.operation # "none" =>
    /\ coord.result[1].success \in BOOLEAN
    /\ (\/ coord.response.status \in {"network_error", "non2xx"}
        \/ coord.response.body = "unparseable")
         => (~coord.result[1].success /\ coord.result[1].error # "")

\* C20: when a send fails, the messages of the session are those of before the send
C20_FailedSendKeepsHistory ==
  (op = "chatFailed" /\ hist.before # <<>>)
    => chat[hist.session].messages = hist.before[1]

\* C21: a step of a send on one session leaves every other session as it was,
\* and puts exactly one message at the end of the messages of its own session
C21_SessionIsolation ==
  [][\A a \in ChatSessionIds :
       (op' \in {"sendChatMessage", "chatAnswered", "chatFailed"} /\ hist'.session = a)
         => /\ \A b \in ChatSessionIds \ {a} : chat'[b] = chat[b]
            /\ Len(chat'[a].messages) = Len(chat[a].messages) + 1
            /\ SubSeq(chat'[a].messages, 1, Len(chat[a].messages)) = chat[a].messages]_vars

\* sends on both sessions are under way at once, after a failed send on one of them
C21_Witness ==
  /\ chat["A"].isLoading
  /\ chat["B"].isLoading
  /\ \E i \in DOMAIN chat["A"].messages :
       chat["A"].messages[i].content = "Error: fetch failed"
  /\ Len(chat["B"].messages) > 1

\* C22: a tools node the create form has just added, with "rag" among its
\* selected tools, has a ragDataSource that is not empty
C22_RagNeedsDataSource ==
  (op = "addNode" /\ hist.acted)
    => LET node == nodes[Len(nodes)]
       IN  (node.data.nodeType = "tools" /\ "rag" \in Range(node.data.selectedTools))
             => /\ "ragDataSource" \in DOMAIN node.data
                /\ node.data.ragDataSource # ""

\* the fields the payload of a node of the type has
FieldsOfType(type) ==
  CASE type = "agent" -> {"name", "description", "nodeType", "prompt"}
    [] type = "tools" -> {"name", "description", "nodeType", "selectedTools"}
    [] OTHER -> {"name", "description", "nodeType"}

\* C23: the create form adds no node when the name is blank, when the type is
\* agent and the prompt is blank, or when the type is tools and no tool is
\* selected; otherwise it adds exactly one node, with the payload of its type
C23_CreateFormGuards ==
  (op = "addNode" /\ hist.conn # <<>>)
    => LET form == hist.conn[1]
           before == hist.pre[1]
       IN  /\ edges = before.edges
           /\ IF \/ IsBlank(form.name)
                 \/ form.type = "agent" /\ IsBlank(form.prompt)
                 \/ form.type = "tools" /\ form.selection = <<>>
              THEN nodes = before.nodes
              ELSE /\ Len(nodes) = Len(before.nodes) + 1
                   /\ SubSeq(nodes, 1, Len(before.nodes)) = before.nodes
                   /\ LET data == nodes[Len(nodes)].data
                      IN  /\ DOMAIN data = FieldsOfType(form.type)
                          /\ data.nodeType = form.type
                          /\ data.name = form.name
                          /\ form.type = "agent" => data.prompt = form.prompt
                          /\ form.type = "tools" => data.selectedTools = form.selection

\* the form has added a tools node
C23_Witness ==
  /\ op = "addNode"
  /\ hist.conn # <<>>
  /\ hist.acted
  /\ hist.conn[1].type = "tools"
  /\ Len(nodes) = Len(initialNodes) + 1

\* the type of the node with the id, "" when the graph has no such node
TypeOfNode(id) ==
  IF FindNode(nodes, id) = <<>> THEN "" ELSE FindNode(nodes, id)[1].data.nodeType

\* C26: a start node has no input port and an end node no output port, and no
\* edge of the graph has a start node as its target or an end node as its source
C26_SystemNodePorts ==
  /\ \A handle \in HandleIds("start") : ~IsInputPort(handle)
  /\ \A handle \in HandleIds("end") : ~IsOutputPort(handle)
  /\ \A e \in Range(edges) :
       /\ TypeOfNode(e.target) # "start"
       /\ TypeOfNode(e.source) # "end"

\* C24: updateEdgeConnection that would make the source of the edge equal to
\* its target changes neither the edges nor the selection; otherwise it changes
\* the chosen end of the selected edge and no other edge
C24_RewireOneEdge ==
  (op = "updateEdgeConnection" /\ hist.conn # <<>>)
    => LET before == hist.pre[1].edges
           field == hist.conn[1].field
           nodeId == hist.conn[1].nodeId
           selected == hist.conn[1].selected
           the == {i \in DOMAIN before : before[i].id = selected.id}
           wouldLoop(e) == \/ field = "source" /\ nodeId = e.target
                           \/ field = "target" /\ nodeId = e.source
           rewired(e) == IF field = "source" THEN [e EXCEPT !.source = nodeId]
                         ELSE [e EXCEPT !.target = nodeId]
           changed == {i \in DOMAIN before : edges[i] # before[i]}
       IN  /\ Len(edges) = Len(before)
           /\ IF \E i \in the : wouldLoop(before[i])
              THEN edges = before /\ selectedEdge = <<selected>>
              ELSE /\ Cardinality(changed) <= 1
                   /\ \A i \in changed : i \in the /\ edges[i] = rewired(before[i])

\* C25: after removeNode no selection is about the removed node
C25_NoSelectionOfRemoved ==
  op = "removeNode"
    => /\ selectedNode = <<>> \/ selectedNode[1].id # hist.deletedId
       /\ selectedEdge = <<>>
          \/ (selectedEdge[1].source # hist.deletedId
              /\ selectedEdge[1].target # hist.deletedId)

NewChatValues ==
  {[type |-> "boolean", text |-> "true"], [type |-> "string", text |-> "true"],
   [type |-> "string", text |-> "True"], [type |-> "number", text |-> "1"],
   [type |-> "string", text |-> "1"]}

ContinueValues ==
  {[type |-> "boolean", text |-> "false"], [type |-> "string", text |-> "false"],
   [type |-> "string", text |-> "False"], [type |-> "number", text |-> "0"],
   [type |-> "string", text |-> "0"], [type |-> "null", text |-> "null"]}

\* C28: true, "true", "True", 1 and "1" start a new session (no session id is
\* needed), false, "false", "False", 0, "0" and null go on with a session (a
\* session id is needed), and every other value is a validation error that
\* leaves the conversations as they were
C28_IsNewChatCoercion ==
  (op = "execute" /\ server.last.isNewChat.type # "absent")
    => LET value == server.last.isNewChat
       IN  /\ value \in NewChatValues
                => /\ server.last.mode = "new"
                   /\ server.last.status # "validation_error"
           /\ value \in ContinueValues
                => /\ server.last.mode = "continue"
                   /\ server.last.sessionArg = <<>>
                        => server.last.status = "validation_error"
           /\ value \notin NewChatValues \cup ContinueValues
                => /\ server.last.status = "validation_error"
                   /\ server.store = hist.pre[1]

\* a request with "True" and no session id was executed in a new session,
\* after conversations were stored
C28_Witness ==
  /\ op = "execute"
  /\ server.last.isNewChat = [type |-> "string", text |-> "True"]
  /\ server.last.sessionArg = <<>>
  /\ server.last.status = "completed"
  /\ \E id \in StoredSessionIds : Len(server.store[id]) > 2

\* C29: the context of an execution is the last min(N, 10) of the N stored
\* messages in their order, and all N are still stored after it
C29_ContextWindow ==
  (op = "execute" /\ server.last.status = "completed")
    => LET stored == hist.before[1]
           N == Len(stored)
           k == IF N < ContextWindow THEN N ELSE ContextWindow
           context == server.last.context
           after == server.store[server.last.sessionId[1]]
       IN  /\ Len(context) = k
           /\ \A j \in 1..k : context[j] = stored[N - k + j]
           /\ Len(after) >= N
           /\ \A j \in 1..N : after[j] = stored[j]

\* an execution in a conversation of more than ten stored messages
C29_Witness ==
  /\ op = "execute"
  /\ server.last.status = "completed"
  /\ Len(hist.before[1]) > ContextWindow
  /\ Len(server.last.context) = ContextWindow

\* the undo timers that are outstanding
UndoTimers == {t \in timers : t.kind = "undo"}

\* C30: at most one undo timer and at most one autosave timer are outstanding
C30_TimersNeverStack ==
  /\ Cardinality(UndoTimers) <= 1
  /\ Cardinality(AutoSaveTimers) <= 1

\* a node was deleted while the undo of another deletion was pending, and an
\* autosave is scheduled
C30_Witness ==
  /\ op = "removeNode"
  /\ hist.superseded # ""
  /\ Cardinality(UndoTimers) = 1
  /\ Cardinality(AutoSaveTimers) = 1

\* C31: once the page is unmounted no timer is pending, the autosave timer
\* issues no persistence call and no undo expiry runs
C31_UnmountCancelsTimers ==
  render = "unmounted"
    => /\ timers = {}
       /\ op \notin {"autoSaveFire", "undoTimeout"}

\* C32: after a save or a load that succeeded and left hasUnsavedChanges
\* false, a step that does not edit the graph leaves it false
C32_DirtyOnlyByEdit ==
  [][(/\ op \in {"saveSucceeded", "loadSucceeded"}
      /\ ~state.hasUnsavedChanges
      /\ nodes' = nodes
      /\ edges' = edges)
       => ~state'.hasUnsavedChanges]_vars

\* the fields of a node that a layout may set
LayoutFields == {"position", "targetPosition", "sourcePosition"}

\* what a call of getLayoutedElements left as it was passed in: the ids and the
\* data of the nodes, and the list of the edges
LayoutKeepsGraph(call) ==
  /\ DOMAIN call.result.nodes = DOMAIN call.nodes
  /\ \A k \in DOMAIN call.nodes :
       \A field \in DOMAIN call.nodes[k] \ LayoutFields :
         call.result.nodes[k][field] = call.nodes[k][field]
  /\ call.result.edges = call.edges

\* C33: a call of getLayoutedElements changes only positions and handle sides,
\* and it returns what the call before it returned for the same nodes and
\* edges, whatever was called in between
C33_LayoutIsPure ==
  [][(op' = "getLayoutedElements" /\ layouted' # <<>>)
       => /\ LayoutKeepsGraph(layouted'[1])
          /\ (/\ layouted # <<>>
              /\ layouted[1].nodes = layouted'[1].nodes
              /\ layouted[1].edges = layouted'[1].edges)
               => layouted'[1].result = layouted[1].result]_vars

\* every call leaves ids, data and edges as passed in
LayoutResultKeepsGraph ==
  layouted # <<>> => LayoutKeepsGraph(layouted[1])

C33_Witness ==
  /\ op = "getLayoutedElements"
  /\ layouted # <<>>
  /\ Len(layouted[1].nodes) > 1
  /\ elkOptions["elk.direction"] # "RIGHT"

\* C34: the record of a deletion is held with one undo timer pending, the
\* timer started by that deletion, and the timer is due when the record is
\* 10 seconds old, also when the timer of a deletion dismissed before was
\* still pending at the deletion
C34_OwnExpiryWindow ==
  deletedNodeData # <<>> =>
    /\ UndoTimers # {}
    /\ \A t \in UndoTimers :
         /\ t.id = undoTimeoutRef
         /\ t.remaining = UndoDelay - deletedNodeData[1].timestamp

C34_Witness ==
  /\ deletedNodeData # <<>>
  /\ hist.stale # <<>>
  /\ deletedNodeData[1].timestamp > hist.stale[1]

\* the number of nodes of a type
NodesOfType(ns, type) == Cardinality({i \in DOMAIN ns : ns[i].data.nodeType = type})

\* C35: no local edit changes the number of start nodes or of end nodes,
\* removeNode on a start or an end node changes neither the graph nor the undo
\* store, and a node that addNode creates is an agent or a tools node
C35_SystemNodesKept ==
  [][/\ NodesOfType(nodes', "start") = NodesOfType(nodes, "start")
     /\ NodesOfType(nodes', "end") = NodesOfType(nodes, "end")
     /\ (/\ op' = "removeNode"
         /\ selectedNode # <<>>
         /\ selectedNode[1].data.nodeType \in {"start", "end"})
          => UNCHANGED <<nodes, edges, deletedNodeData, undoTimeoutRef, timers>>
     /\ (op' = "addNode" /\ nodes' # nodes)
          => nodes'[Len(nodes')].data.nodeType \in {"agent", "tools"}]_vars

C35_Witness ==
  /\ op = "removeNode"
  /\ ~hist.acted
  /\ hist.deletedId = "start"
  /\ Len(nodes) > Len(initialNodes)
  /\ NodesOfType(nodes, "start") = 1

\* C36: whenever hasUnsavedChanges is false and lastSaved is set, the graph of
\* the page is the graph the backend stores, the one persisted or loaded last
C36_CleanMeansPersisted ==
  (~state.hasUnsavedChanges /\ state.lastSaved # <<>>)
    => Snapshot(nodes, edges) = backend

\* C37: a graph with unsaved changes and its autosave timer pending leads to
\* the timer firing, with no edit needed to get there
C37_AutoSaveEventuallyFires ==
  (state.hasUnsavedChanges /\ AutoSaveTimers # {}) ~> (op = "autoSaveFire")

\* the requests in flight that an operation of the hook made under a flag
RequestsUnder(flag) ==
  {i \in DOMAIN inflight : inflight[i].via = "hook" /\ BusyFlag(inflight[i].kind) = flag}

\* C38: each busy flag of useWorkflow is true exactly while a request made
\* under it is in flight
C38_BusyFlagsTrackRequests ==
  \A flag \in {"isSaving", "isLoading", "isExecuting", "isValidating"} :
    state[flag] <=> RequestsUnder(flag) # {}

\* the data of the nodes, by id
NodeData(ns) == {<<ns[i].id, ns[i].data>> : i \in DOMAIN ns}

\* C39: applying the result of a layout changes positions only: the graph
\* keeps the nodes, their data and the edges it had just before, whatever was
\* edited while the layout was computed
C39_LayoutKeepsEdits ==
  [][op' = "quickLayoutDone"
       => /\ NodeData(nodes') = NodeData(nodes)
          /\ edges' = edges]_vars

\* the messages after one more message of a role was put at their end
AppendedBy(before, after, role) ==
  /\ Len(after) = Len(before) + 1
  /\ SubSeq(after, 1, Len(before)) = before
  /\ after[Len(after)].role = role

\* C40: a send made while the session is loading changes nothing; an accepted
\* send puts the user message at the end of the session and sets isLoading,
\* its end puts one message of the assistant (the answer or the error) right
\* after it and clears isLoading, nothing else changes a session, and a session
\* that is loading is eventually not loading
C40_SendProtocol ==
  /\ [][/\ op' = "sendIgnored" => chat' = chat
        /\ op' = "sendChatMessage"
             => /\ ~chat[hist'.session].isLoading
                /\ chat'[hist'.session].isLoading
                /\ AppendedBy(chat[hist'.session].messages,
                              chat'[hist'.session].messages, "user")
        /\ op' \in {"chatAnswered", "chatFailed"}
             => /\ chat[hist'.session].isLoading
                /\ ~chat'[hist'.session].isLoading
                /\ chat[hist'.session].messages # <<>>
                /\ chat[hist'.session].messages[Len(chat[hist'.session].messages)].role
                     = "user"
                /\ AppendedBy(chat[hist'.session].messages,
                              chat'[hist'.session].messages, "assistant")
        /\ \A sessionId \in ChatSessionIds :
             chat'[sessionId] # chat[sessionId]
               => /\ op' \in {"sendChatMessage", "chatAnswered", "chatFailed"}
                  /\ hist'.session = sessionId]_vars
  /\ \A sessionId \in ChatSessionIds :
       chat[sessionId].isLoading ~> ~chat[sessionId].isLoading

C40_Witness ==
  /\ op = "sendIgnored"
  /\ hist.ignored = <<"hello">>
  /\ chat[hist.session].isLoading
  /\ Len(chat[hist.session].messages) = 3

====
